---- MODULE Spec2Model ----
(***************************************************************************)
(* Model of the stock-transaction ETL (etl_iiko_stock_tx_daily.py):        *)
(* the aggregator and the dual-key upserter on the ledger stock_tx_iiko,   *)
(* and the rebuild of the plan/fact discrepancy tables batch_anchor_diff   *)
(* and batch_anchor_diff_total.                                            *)
(*                                                                         *)
(* Database tables are bags (multisets) of rows: a table may hold several  *)
(* identical rows unless a unique index forbids it.  The variables hold    *)
(* the COMMITTED contents of the tables; every action runs the code from   *)
(* one conn.commit() (or the start of the function) to the next, so each   *)
(* state of the model is a state another database session can observe.     *)
(* A statement that raises leaves no trace: main closes the connection and *)
(* the open transaction is rolled back.                                    *)
(*                                                                         *)
(* The unique indexes the two ON CONFLICT clauses name are not created by  *)
(* the program; nullsDistinct says whether they compare NULLs as distinct  *)
(* (the PostgreSQL default) or not (NULLS NOT DISTINCT), and both are      *)
(* initial states.  The source tables of the rebuild change only between   *)
(* runs (EditAnchor, LifecycleChange, RefChange, DropTable, CreateTable).  *)
(*                                                                         *)
(* The column sets of stock_tx_iiko, batch_anchor_diff and                 *)
(* batch_anchor_diff_total are what get_table_columns reads from the       *)
(* catalog (ledgerCols, diffCols, totalCols).  A row of a table is a       *)
(* record over the semantic fields of the table; a field whose column the  *)
(* schema lacks holds None.  SpecUpsert and SpecRebuild run on the         *)
(* standard schema, SpecMain runs main() as a whole on drifted schemas.    *)
(*                                                                         *)
(* calls is the history of a run: the functions main has called so far,    *)
(* the catalog queries and the release of connection and session.          *)
(* SpecPick and SpecAggregate call pick_turnover_column and aggregate_rows *)
(* on their own, on inputs drawn by the initial state.  SpecCrm is the     *)
(* retry loop of the CRM loader (etl_iiko_t1_light_crm.py).                *)
(***************************************************************************)
EXTENDS Integers, Naturals, Sequences, FiniteSets, Bags, TLC

\* ------------------------------------------------------------ bounds
MaxRecs == 2
MaxRuns == 2
MaxEdits == 3
\* the longest input of aggregate_rows called on its own
MaxAggLen == 3
\* the most chunks the period of a run of the CRM loader is cut into
MaxChunks == 2

\* Python None / SQL NULL
None == "<None>"

\* execute_values(..., page_size=500): rows per INSERT statement
PageSize == 500

\* ------------------------------------------------------------ inputs
Departments == {"A"}
Products    == {"P1"}
Days        == {"2024-05-01", "2024-05-02"}
Names       == {"n1", "n2"}
Types       == {"dish"}
Units       == {"kg"}
Documents   == {None, "", "D1"}
Kinds       == {"INVOICE"}
\* the floats 1.0 and 2.0 (see FloatAdd): every sum of three of them is exact
Turnovers   == {1, 2}

\* a row as fetch_stock_tx builds it (one dict per report row)
TxRecords ==
  [department : Departments, oper_day : Days, product_num : Products,
   product_name : Names, product_type : Types, measure_unit : Units,
   document : Documents, transaction_type : Kinds, turnover : Turnovers]

RECURSIVE SeqsUpTo(_, _)
SeqsUpTo(S, n) ==
  IF n = 0 THEN {<<>>}
  ELSE LET shorter == SeqsUpTo(S, n - 1)
       IN  shorter \cup {Append(s, x) : s \in {t \in shorter : Len(t) = n - 1}, x \in S}

FetchResults == SeqsUpTo(TxRecords, MaxRecs)

\* the tables refresh_anchor_discrepancies needs
T_ANCHOR    == "batch_manual_anchor"
T_DIFF      == "batch_anchor_diff"
T_TOTAL     == "batch_anchor_diff_total"
T_LIFECYCLE == "batch_daily_lifecycle"
RebuildTables == {T_ANCHOR, T_DIFF, T_TOTAL, T_LIFECYCLE}

ProductionDays == {"2024-04-29", "2024-04-30"}
Facts          == {5, 12}
Closings       == {4, 9}

\* batch_manual_anchor rows; (department, product_num, anchor_day,
\* production_day) is the key of the table
AnchorRows ==
  [department : Departments, product_num : Products, product_name : {None, "n1"},
   anchor_day : Days, production_day : ProductionDays, qty_fact : Facts]

\* batch_daily_lifecycle rows; (department, product_num, snapshot_day,
\* production_day) is the key of the table
LifecycleRows ==
  [department : Departments, product_num : Products, snapshot_day : Days,
   production_day : ProductionDays, qty_closing : Closings]

\* prep_items_ref rows
RefRows ==
  { [product_num |-> "P1", product_name |-> "n1"],
    [product_num |-> "0P1", product_name |-> "n2"] }

\* ------------------------------------------------------------ schemas
\* the columns of stock_tx_iiko the INSERTs name
LedgerColumns ==
  {"department", "oper_day", "product_num", "product_name", "product_type",
   "measure_unit", "document", "transaction_type", "turnover", "updated_at"}

\* the columns of batch_anchor_diff and batch_anchor_diff_total under the
\* first variant of every name
DiffColumns ==
  {"department", "product_num", "product_name", "anchor_day", "production_day",
   "qty_fact", "qty_plan", "diff_qty"}

TotalColumns ==
  {"department", "product_num", "product_name", "anchor_day",
   "qty_fact_total", "qty_plan_total", "diff_qty_total"}

\* the columns of batch_daily_lifecycle the statements name
LifecycleColumns ==
  {"department", "product_num", "snapshot_day", "production_day", "qty_closing"}

Renamed(cols, old, new) == (cols \ {old}) \cup {new}

\* schemas of the ledger a deployment may have
LedgerSchemas ==
  { LedgerColumns,
    LedgerColumns \ {"turnover"},
    Renamed(LedgerColumns, "turnover", "amount"),
    LedgerColumns \ {"document"} }

\* schemas of batch_anchor_diff a deployment may have
DiffSchemas ==
  { DiffColumns,
    Renamed(DiffColumns, "qty_fact", "fact_qty"),
    Renamed(DiffColumns, "qty_plan", "plan_qty"),
    DiffColumns \ {"qty_fact"},
    DiffColumns \ {"qty_plan"},
    DiffColumns \ {"qty_plan", "diff_qty"},
    DiffColumns \ {"product_name"} }

\* schemas of batch_anchor_diff_total a deployment may have
TotalSchemas ==
  { TotalColumns,
    TotalColumns \ {"anchor_day"},
    {"department", "product_num", "anchor_day"},
    {"department", "product_num", "product_name", "anchor_day",
     "qty_fact", "qty_plan", "diff_qty"} }

VARIABLES
  nullsDistinct,  \* schema: the unique indexes treat NULLs as distinct
  ledger,         \* stock_tx_iiko, committed rows (bag)
  rows,           \* the rows fetched for the current run
  pc,             \* position of the run
  err,            \* how the current run raised: "none", "db", "cardinality"
  commits,        \* conn.commit() calls of upsert_stock_tx in this run
  clock,          \* number of the run; now() of its statements
  ledger0,        \* history: the ledger when the run started
  rerun,          \* history: this run has the input of the previous run,
                  \* and the previous run raised nothing
  tables,         \* the tables of RebuildTables that exist
  anchors,        \* batch_manual_anchor (set of rows, unique key)
  lifecycle,      \* batch_daily_lifecycle (set of rows, unique key)
  refs,           \* prep_items_ref
  diff,           \* batch_anchor_diff, committed rows (bag)
  total,          \* batch_anchor_diff_total, committed rows (bag)
  diff0,          \* history: batch_anchor_diff when the refresh started
  total0,         \* history: batch_anchor_diff_total when the refresh started
  edits,          \* changes made to the source tables from outside so far
  settled,        \* history: the last refresh completed a rebuild and the
                  \* source tables have not changed since
  ledgerCols,     \* schema: the columns of stock_tx_iiko
  diffCols,       \* schema: the columns of batch_anchor_diff
  totalCols,      \* schema: the columns of batch_anchor_diff_total
  calls,          \* history: the calls made so far in the run, in order
  result,         \* what a function called on its own has returned
  crm             \* etl_iiko_t1_light_crm: the locals of main and of
                  \* fetch_t1_light_with_token_refresh

schemaVars  == <<ledgerCols, diffCols, totalCols>>
upsertData  == <<nullsDistinct, ledger, rows, commits, clock, ledger0, rerun, schemaVars,
                 result, crm>>
upsertVars  == <<upsertData, calls>>
sourceVars  == <<tables, anchors, lifecycle, refs, edits, settled>>
derivedVars == <<diff, total, diff0, total0>>
rebuildData == <<tables, anchors, lifecycle, refs, diff, total, diff0, total0, edits,
                 settled, schemaVars, result, crm>>
rebuildVars == <<rebuildData, calls>>

vars == <<nullsDistinct, ledger, rows, pc, err, commits, clock, ledger0, rerun,
          tables, anchors, lifecycle, refs, diff, total, diff0, total0, edits,
          settled, ledgerCols, diffCols, totalCols, calls, result, crm>>

\* etl_iiko_t1_light_crm before main is entered
CrmIdle ==
  [chunks |-> 0, chunk |-> 0, attempt |-> 0, requests |-> 0, refreshed |-> 0,
   token |-> 0, last_err |-> None, response |-> None]

\* ------------------------------------------------------------ calls of a run
\* the entries of the history variable calls
GetToken == "get_token"
GetTokenRaise == "raise get_token"
FetchStockTx == "fetch_stock_tx"
FetchStockTxRaise == "raise fetch_stock_tx"
GetPgConnection == "get_pg_connection"
GetPgConnectionRaise == "raise get_pg_connection"
UpsertStockTx == "upsert_stock_tx"
UpsertStockTxReturn == "return upsert_stock_tx"
LedgerCatalog == "get_table_columns(stock_tx_iiko)"
DiffCatalog == "get_table_columns(batch_anchor_diff)"
TotalCatalog == "get_table_columns(batch_anchor_diff_total)"
PrintDbSampleCall == "print_db_sample"
RefreshDatalensTailCall == "refresh_datalens_tail"
LifecycleProcedure == "CALL refresh_batch_daily_lifecycle_range"
RefreshAnchorDiscrepancies == "refresh_anchor_discrepancies"
LifecycleRaise == "raise refresh_datalens_tail"
ConnClose == "conn.close"
Logout == "logout"

\* ------------------------------------------------------------ column lookup
\* raise RuntimeError(...)
RuntimeError == "<RuntimeError>"

\* for v in variants: if v in cols: return v  (None when the loop ends)
RECURSIVE FirstIn(_, _, _)
FirstIn(cols, variants, i) ==
  IF i > Len(variants) THEN None
  ELSE IF variants[i] \in cols THEN variants[i]
  ELSE FirstIn(cols, variants, i + 1)

TurnoverCandidates == <<"turnover", "store_in_out", "amount_store_in_out", "amount">>

\* a lookup that falls back on the first candidate
pick_turnover_column_default(cols) ==
  IF FirstIn(cols, TurnoverCandidates, 1) = None THEN TurnoverCandidates[1]
  ELSE FirstIn(cols, TurnoverCandidates, 1)

\* a lookup that tries the candidates from the last to the first
pick_turnover_column_reversed(cols) ==
  IF FirstIn(cols, <<"amount", "amount_store_in_out", "store_in_out", "turnover">>, 1) = None
  THEN RuntimeError
  ELSE FirstIn(cols, <<"amount", "amount_store_in_out", "store_in_out", "turnover">>, 1)

pick_turnover_column(cols) ==
  IF FirstIn(cols, TurnoverCandidates, 1) = None THEN RuntimeError
  ELSE FirstIn(cols, TurnoverCandidates, 1)

\* pick_one of refresh_anchor_discrepancies
pick_one(cols, variants, required) ==
  IF FirstIn(cols, variants, 1) = None /\ required THEN RuntimeError
  ELSE FirstIn(cols, variants, 1)

\* has_document = "document" in cols
has_document == "document" \in ledgerCols

\* upsert_stock_tx gets past its two schema checks
LedgerSchemaOk ==
  /\ pick_turnover_column(ledgerCols) # RuntimeError
  /\ has_document

\* ------------------------------------------------------------ aggregate_rows
key_fields(r, with_document) ==
  <<r.department, r.oper_day, r.product_num, r.product_name, r.product_type,
    r.measure_unit>>
  \o (IF with_document THEN <<r.document>> ELSE <<>>)
  \o <<r.transaction_type>>

\* ---- Python floats (IEEE 754 binary64)
\* A turnover is the float(...) of fetch_stock_tx.  The model holds a float
\* as an integer: n stands for the float (n \div TwoTo53) * 2^53 + (n % TwoTo53),
\* so a number below TwoTo53 stands for itself and TwoTo53 stands for
\* 2^53 = 9007199254740992.0, the first float whose successor is 2 away.
TwoTo53 == 1048576

\* a + b of two floats: the exact sum rounded to 53 significant bits, ties to
\* the even mantissa.  From 2^53 on the floats are 2 apart, from 2^54 on 4
\* apart, and so on; below 2^53 the integers are exact.
FloatAdd(a, b) ==
  LET s   == a + b
      hi  == s \div TwoTo53
      lo  == s % TwoTo53
      ulp == IF hi = 0 THEN 1
             ELSE CHOOSE u \in {2, 4, 8, 16, 32, 64} : u \div 2 <= hi /\ hi < u
      q   == lo \div ulp
      rem == lo % ulp
      up  == IF 2 * rem < ulp THEN 0
             ELSE IF 2 * rem > ulp THEN 1
             ELSE q % 2
  IN  hi * TwoTo53 + (q + up) * ulp

\* agg is a dict: insertion-ordered; first row of a key is copied, later rows
\* of the key only add their turnover, float(...) + float(...)
RECURSIVE AggFold(_, _, _, _)
AggFold(agg, rs, i, with_document) ==
  IF i > Len(rs) THEN agg
  ELSE LET r   == rs[i]
           hit == {j \in 1..Len(agg) :
                     key_fields(agg[j], with_document) = key_fields(r, with_document)}
       IN  IF hit = {}
           THEN AggFold(Append(agg, r), rs, i + 1, with_document)
           ELSE LET j == CHOOSE j \in hit : TRUE
                IN  AggFold([agg EXCEPT ![j].turnover = FloatAdd(@, r.turnover)],
                            rs, i + 1, with_document)

aggregate_rows(rs, with_document) == AggFold(<<>>, rs, 1, with_document)

\* ------------------------------------------------------------ the two INSERTs
HasDoc(r) == r.document \notin {None, ""}
rows_with_doc(agg) == SelectSeq(agg, HasDoc)
NoDoc(r) == r.document \in {None, ""}
rows_no_doc(agg) == SelectSeq(agg, NoDoc)

\* the VALUES tuple of one row plus now() for updated_at
LedgerRow(r, doc, ts) ==
  [department |-> r.department, oper_day |-> r.oper_day,
   product_num |-> r.product_num, product_name |-> r.product_name,
   product_type |-> r.product_type, measure_unit |-> r.measure_unit,
   document |-> doc, transaction_type |-> r.transaction_type,
   turnover |-> r.turnover, updated_at |-> ts]

ValuesWithDoc(r, ts) == LedgerRow(r, r.document, ts)
ValuesNoDoc(r, ts)   == LedgerRow(r, None, ts)

\* ON CONFLICT (department, product_num, document, transaction_type)
\*   WHERE document IS NOT NULL
DocKey(r) == <<r.department, r.product_num, r.document, r.transaction_type>>
DocIndexed(r) == r.document # None

\* ON CONFLICT (department, oper_day, product_num, document, transaction_type)
DayKey(r) == <<r.department, r.oper_day, r.product_num, r.document, r.transaction_type>>

KeyHasNull(k) == \E i \in 1..Len(k) : k[i] = None

\* does the proposed row v hit the existing row under the arbiter index?
\* nd: the index compares NULLs as distinct, so a key with a NULL never hits
DocConflictOnDayKey(row, v, nd) ==
  /\ row.department = v.department /\ row.oper_day = v.oper_day
  /\ row.product_num = v.product_num /\ row.transaction_type = v.transaction_type

\* an arbiter that leaves the document reference out of the key
DocConflictNoDocument(row, v, nd) ==
  /\ row.department = v.department
  /\ row.product_num = v.product_num /\ row.transaction_type = v.transaction_type

DocConflict(row, v, nd) ==
  /\ DocIndexed(row) /\ DocIndexed(v)
  /\ DocKey(row) = DocKey(v)
  /\ ~(nd /\ KeyHasNull(DocKey(v)))

DayConflict(row, v, nd) ==
  /\ DayKey(row) = DayKey(v)
  /\ ~(nd /\ KeyHasNull(DayKey(v)))

Conflict(kind, row, v, nd) ==
  IF kind = "doc" THEN DocConflict(row, v, nd) ELSE DayConflict(row, v, nd)

\* a DO UPDATE SET list without oper_day
UpdateWithDocKeepsDay(old, new) ==
  [old EXCEPT !.product_name = new.product_name,
              !.product_type = new.product_type, !.measure_unit = new.measure_unit,
              !.turnover = new.turnover, !.updated_at = new.updated_at]

\* DO UPDATE SET of the document-scoped statement
UpdateWithDoc(old, new) ==
  [old EXCEPT !.oper_day = new.oper_day, !.product_name = new.product_name,
              !.product_type = new.product_type, !.measure_unit = new.measure_unit,
              !.turnover = new.turnover, !.updated_at = new.updated_at]

\* DO UPDATE SET of the day-scoped statement
UpdateNoDoc(old, new) ==
  [old EXCEPT !.product_name = new.product_name,
              !.product_type = new.product_type, !.measure_unit = new.measure_unit,
              !.turnover = new.turnover, !.updated_at = new.updated_at]

DoUpdate(kind, old, new) ==
  IF kind = "doc" THEN UpdateWithDoc(old, new) ELSE UpdateNoDoc(old, new)

\* ------------------------------------------------------------ PostgreSQL
\* INSERT ... VALUES ... ON CONFLICT ... DO UPDATE over the rows of `values`,
\* execute_values sending one statement per page of PageSize rows.  st is
\* [ok, table, touched]: touched holds the rows the current statement has
\* inserted or updated; a proposed row that hits one of them makes the
\* statement fail ("ON CONFLICT DO UPDATE command cannot affect row a second
\* time").
BagAdd(B, x) == B (+) SetToBag({x})
BagRemove(B, x) == B (-) SetToBag({x})

RECURSIVE InsertFold(_, _, _, _, _)
InsertFold(st, values, i, kind, nd) ==
  IF ~st.ok \/ i > Len(values) THEN st
  ELSE LET v       == values[i]
           touched == IF (i - 1) % PageSize = 0 THEN {} ELSE st.touched
           hitT    == {t \in touched : Conflict(kind, t, v, nd)}
           hitR    == {t \in BagToSet(st.table) : Conflict(kind, t, v, nd)}
       IN  IF hitT # {}
           THEN [st EXCEPT !.ok = FALSE]
           ELSE IF hitR # {}
           THEN LET old == CHOOSE t \in hitR : TRUE
                    new == DoUpdate(kind, old, v)
                IN  InsertFold([ok |-> TRUE,
                                table |-> BagAdd(BagRemove(st.table, old), new),
                                touched |-> touched \cup {new}],
                               values, i + 1, kind, nd)
           ELSE InsertFold([ok |-> TRUE, table |-> BagAdd(st.table, v),
                            touched |-> touched \cup {v}],
                           values, i + 1, kind, nd)

execute_values(table, values, kind, nd) ==
  InsertFold([ok |-> TRUE, table |-> table, touched |-> {}], values, 1, kind, nd)

\* the values lists of upsert_stock_tx for the rows fetched in this run
DocValues(rs, ts) ==
  LET w == rows_with_doc(aggregate_rows(rs, TRUE))
  IN  [i \in 1..Len(w) |-> ValuesWithDoc(w[i], ts)]

NoDocValues(rs, ts) ==
  LET w == rows_no_doc(aggregate_rows(rs, TRUE))
  IN  [i \in 1..Len(w) |-> ValuesNoDoc(w[i], ts)]

\* ------------------------------------------------------------ the run
Init ==
  /\ nullsDistinct \in BOOLEAN
  /\ ledger = EmptyBag
  /\ rows = <<>>
  /\ pc = "idle"
  /\ err = "none"
  /\ commits = 0
  /\ clock = 0
  /\ ledger0 = EmptyBag
  /\ rerun = FALSE
  /\ tables = RebuildTables
  /\ anchors = {}
  /\ lifecycle = {}
  /\ refs = {}
  /\ diff = EmptyBag
  /\ total = EmptyBag
  /\ diff0 = EmptyBag
  /\ total0 = EmptyBag
  /\ edits = 0
  /\ settled = FALSE
  /\ ledgerCols = LedgerColumns
  /\ diffCols = DiffColumns
  /\ totalCols = TotalColumns
  /\ calls = <<>>
  /\ result = <<>>
  /\ crm = CrmIdle

\* main: fetch_stock_tx returns, the connection is opened, upsert_stock_tx is
\* entered
FetchFrom(results) ==
  /\ pc = "idle"
  /\ clock < MaxRuns
  /\ \E rs \in results :
       /\ rows' = rs
       /\ rerun' = (clock >= 1 /\ err = "none" /\ rs = rows)
  /\ clock' = clock + 1
  /\ ledger0' = ledger
  /\ err' = "none"
  /\ commits' = 0
  /\ pc' = "upsert"
  /\ UNCHANGED <<nullsDistinct, ledger>>
  /\ calls' = <<GetToken, FetchStockTx, GetPgConnection, UpsertStockTx>>
  /\ UNCHANGED rebuildData

Fetch == FetchFrom(FetchResults)

\* if not rows: return 0
UpsertNothing ==
  /\ pc = "upsert"
  /\ rows = <<>>
  /\ pc' = "done"
  /\ UNCHANGED <<nullsDistinct, ledger, rows, err, commits, clock, ledger0, rerun>>
  /\ calls' = Append(calls, UpsertStockTxReturn)
  /\ UNCHANGED rebuildData

\* pick_turnover_column raises, or the ledger has no document column:
\* raise RuntimeError before any statement
UpsertSchemaRaise ==
  /\ pc = "upsert"
  /\ rows # <<>>
  /\ ~LedgerSchemaOk
  /\ err' = IF pick_turnover_column(ledgerCols) = RuntimeError
            THEN "no_turnover_column" ELSE "no_document_column"
  /\ pc' = "failed"
  /\ UNCHANGED <<nullsDistinct, ledger, rows, commits, clock, ledger0, rerun>>
  /\ calls' = Append(calls, LedgerCatalog)
  /\ UNCHANGED rebuildData

\* if rows_with_doc: (false)
WithDocSkip ==
  /\ pc = "upsert"
  /\ rows # <<>>
  /\ LedgerSchemaOk
  /\ DocValues(rows, clock) = <<>>
  /\ pc' = "no_doc"
  /\ UNCHANGED <<nullsDistinct, ledger, rows, err, commits, clock, ledger0, rerun>>
  /\ calls' = Append(calls, LedgerCatalog)
  /\ UNCHANGED rebuildData

\* execute_values(sql_with_doc); conn.commit()
WithDocCommit ==
  /\ pc = "upsert"
  /\ rows # <<>>
  /\ LedgerSchemaOk
  /\ DocValues(rows, clock) # <<>>
  /\ LET res == execute_values(ledger, DocValues(rows, clock), "doc", nullsDistinct)
     IN  /\ res.ok
         /\ ledger' = res.table
  /\ commits' = commits + 1
  /\ pc' = "no_doc"
  /\ UNCHANGED <<nullsDistinct, rows, err, clock, ledger0, rerun>>
  /\ calls' = Append(calls, LedgerCatalog)
  /\ UNCHANGED rebuildData

\* execute_values(sql_with_doc) raises: the statement hits a row twice, or the
\* database fails; main closes the connection, the open transaction is lost
WithDocRaise ==
  /\ pc = "upsert"
  /\ rows # <<>>
  /\ LedgerSchemaOk
  /\ DocValues(rows, clock) # <<>>
  /\ \/ /\ ~execute_values(ledger, DocValues(rows, clock), "doc", nullsDistinct).ok
        /\ err' = "cardinality"
     \/ err' = "db"
  /\ pc' = "failed"
  /\ UNCHANGED <<nullsDistinct, ledger, rows, commits, clock, ledger0, rerun>>
  /\ calls' = Append(calls, LedgerCatalog)
  /\ UNCHANGED rebuildData

\* if rows_no_doc: (false); return total_written
NoDocSkip ==
  /\ pc = "no_doc"
  /\ NoDocValues(rows, clock) = <<>>
  /\ pc' = "done"
  /\ UNCHANGED <<nullsDistinct, ledger, rows, err, commits, clock, ledger0, rerun>>
  /\ calls' = Append(calls, UpsertStockTxReturn)
  /\ UNCHANGED rebuildData

\* execute_values(sql_no_doc); conn.commit(); return total_written
NoDocCommit ==
  /\ pc = "no_doc"
  /\ NoDocValues(rows, clock) # <<>>
  /\ LET res == execute_values(ledger, NoDocValues(rows, clock), "day", nullsDistinct)
     IN  /\ res.ok
         /\ ledger' = res.table
  /\ commits' = commits + 1
  /\ pc' = "done"
  /\ UNCHANGED <<nullsDistinct, rows, err, clock, ledger0, rerun>>
  /\ calls' = Append(calls, UpsertStockTxReturn)
  /\ UNCHANGED rebuildData

\* execute_values(sql_no_doc) raises
NoDocRaise ==
  /\ pc = "no_doc"
  /\ NoDocValues(rows, clock) # <<>>
  /\ \/ /\ ~execute_values(ledger, NoDocValues(rows, clock), "day", nullsDistinct).ok
        /\ err' = "cardinality"
     \/ err' = "db"
  /\ pc' = "failed"
  /\ UNCHANGED <<nullsDistinct, ledger, rows, commits, clock, ledger0, rerun>>
  /\ UNCHANGED rebuildVars

\* main: finally conn.close(); finally logout(token)
Finish ==
  /\ pc \in {"done", "failed"}
  /\ pc' = "idle"
  /\ UNCHANGED <<nullsDistinct, ledger, rows, err, commits, clock, ledger0, rerun>>
  /\ calls' = <<>>
  /\ UNCHANGED rebuildData

NextUpsert ==
  \/ Fetch
  \/ UpsertNothing
  \/ WithDocSkip
  \/ WithDocCommit
  \/ WithDocRaise
  \/ NoDocSkip
  \/ NoDocCommit
  \/ NoDocRaise
  \/ Finish

InitUpsert == Init

SpecUpsert == InitUpsert /\ [][NextUpsert]_vars

\* ------------------------------------------------------------ rebuild
\* A batch_anchor_diff row has the fields department, product_num,
\* product_name, anchor_day, production_day, qty_fact, qty_plan, diff_qty, a
\* batch_anchor_diff_total row the fields department, product_num,
\* product_name, anchor_day, qty_fact_total, qty_plan_total, diff_qty_total,
\* whatever the columns are called; a field whose column pick_one does not
\* find holds None.  The status, opening, closing and timestamp columns only
\* add select expressions over a and l that always resolve; they are left out.

\* the columns pick_one finds in batch_anchor_diff
c_product_name == pick_one(diffCols, <<"product_name">>, FALSE)
c_qty_fact == pick_one(diffCols, <<"qty_fact", "fact_qty">>, TRUE)
c_qty_plan == pick_one(diffCols, <<"qty_plan", "plan_qty", "qty_planned">>, FALSE)
c_diff_qty == pick_one(diffCols, <<"diff_qty", "qty_diff", "delta_qty">>, FALSE)

DiffRequired ==
  {pick_one(diffCols, <<c>>, TRUE) :
     c \in {"department", "product_num", "anchor_day", "production_day"}}
  \cup {c_qty_fact}

\* the columns pick_one finds in batch_anchor_diff_total
tc_product_name == pick_one(totalCols, <<"product_name">>, FALSE)
tc_qty_fact ==
  pick_one(totalCols, <<"qty_fact_total", "qty_fact", "fact_qty_total", "fact_qty">>, FALSE)
tc_qty_plan ==
  pick_one(totalCols, <<"qty_plan_total", "qty_plan", "plan_qty_total", "plan_qty">>, FALSE)
tc_diff_qty ==
  pick_one(totalCols, <<"diff_qty_total", "diff_qty", "qty_diff_total", "qty_diff",
                        "delta_qty_total", "delta_qty">>, FALSE)

TotalRequired ==
  {pick_one(totalCols, <<c>>, TRUE) : c \in {"department", "product_num", "anchor_day"}}

\* no pick_one(..., required=True) raises
RebuildSchemaOk == RuntimeError \notin (DiffRequired \cup TotalRequired)

\* public.canon_product_num: the canonical form of a product number (a
\* leading zero is dropped)
canon_product_num(p) == IF p = "0P1" THEN "P1" ELSE p

\* LEFT JOIN batch_daily_lifecycle l ON ...
JoinLifecycleAnyBatch(a, l) ==
  /\ l.department = a.department
  /\ l.product_num = a.product_num
  /\ l.snapshot_day = a.anchor_day

JoinLifecycle(a, l) ==
  /\ l.department = a.department
  /\ l.product_num = a.product_num
  /\ l.snapshot_day = a.anchor_day
  /\ l.production_day = a.production_day

\* LEFT JOIN prep_items_ref ref ON ...
JoinRef(a, ref) == canon_product_num(ref.product_num) = canon_product_num(a.product_num)

\* the right side of a LEFT JOIN for one left row: each matching row as <<row>>,
\* or the all-NULL row <<>> when none matches
LeftJoinSide(matching) ==
  IF matching = {} THEN {<<>>} ELSE {<<m>> : m \in matching}

\* FROM a LEFT JOIN l LEFT JOIN ref: the joined rows <<a, l, ref>>
DetailJoin(anc, lif, rfs) ==
  UNION { { <<a, lo, ro>> :
              lo \in LeftJoinSide({l \in lif : JoinLifecycle(a, l)}),
              ro \in LeftJoinSide({r \in rfs : JoinRef(a, r)}) }
          : a \in anc }

\* COALESCE(l.qty_closing, 0)
CoalesceClosing(lo) == IF lo = <<>> THEN 0 ELSE lo[1].qty_closing

\* COALESCE(a.product_name, ref.product_name)
CoalesceName(a, ro) ==
  IF a.product_name # None THEN a.product_name
  ELSE IF ro = <<>> THEN None ELSE ro[1].product_name

\* the SELECT list of sql_detail for one joined row
DetailRow(j) ==
  LET a == j[1]
      lo == j[2]
      ro == j[3]
  IN  [department |-> a.department, product_num |-> a.product_num,
       product_name |-> IF c_product_name = None THEN None ELSE CoalesceName(a, ro),
       anchor_day |-> a.anchor_day, production_day |-> a.production_day,
       qty_fact |-> a.qty_fact,
       qty_plan |-> IF c_qty_plan = None THEN None ELSE CoalesceClosing(lo),
       diff_qty |-> IF c_diff_qty = None THEN None
                    ELSE a.qty_fact - CoalesceClosing(lo)]

RECURSIVE DetailBag(_)
DetailBag(J) ==
  IF J = {} THEN EmptyBag
  ELSE LET j == CHOOSE j \in J : TRUE
       IN  BagAdd(DetailBag(J \ {j}), DetailRow(j))

\* the rows sql_detail inserts
sql_detail(anc, lif, rfs) == DetailBag(DetailJoin(anc, lif, rfs))

\* a GROUP BY without the anchor day
GroupKeyNoDay(d) == <<d.department, d.product_num, "2024-05-01">>

\* GROUP BY d.department, d.product_num, d.anchor_day
GroupKey(d) == <<d.department, d.product_num, d.anchor_day>>

Qty(d, f) ==
  CASE f = "qty_fact" -> d.qty_fact
    [] f = "qty_plan" -> d.qty_plan
    [] f = "diff_qty" -> d.diff_qty

\* SUM(d.<f>) over the rows S of the bag D
RECURSIVE SumQty(_, _, _)
SumQty(D, S, f) ==
  IF S = {} THEN 0
  ELSE LET d == CHOOSE d \in S : TRUE
       IN  D[d] * Qty(d, f) + SumQty(D, S \ {d}, f)

\* MAX(d.product_name): NULLs are skipped, strings compare in collation order
NameOrder == <<"n1", "n2">>
NameRank(n) == CHOOSE i \in 1..Len(NameOrder) : NameOrder[i] = n
MaxName(S) ==
  LET named == {d.product_name : d \in S} \ {None}
  IN  IF named = {} THEN None
      ELSE CHOOSE n \in named : \A m \in named : NameRank(m) <= NameRank(n)

\* if c_qty_plan or c_diff_qty: FROM d only; else: FROM d LEFT JOIN l
TotalJoinsLifecycle == ~(c_qty_plan # None \/ c_diff_qty # None)

\* LEFT JOIN batch_daily_lifecycle l ON ... (sql_total)
JoinDetailLifecycle(d, l) ==
  /\ l.department = d.department
  /\ l.product_num = d.product_num
  /\ l.snapshot_day = d.anchor_day
  /\ l.production_day = d.production_day

\* SUM(COALESCE(l.qty_closing, 0)) over the rows S of the bag D joined with
\* the lifecycle rows (at most one per detail row: the key of the table)
RECURSIVE SumClosing(_, _)
SumClosing(D, S) ==
  IF S = {} THEN 0
  ELSE LET d == CHOOSE d \in S : TRUE
           lo == CHOOSE lo \in LeftJoinSide({l \in lifecycle : JoinDetailLifecycle(d, l)}) :
                   TRUE
       IN  D[d] * CoalesceClosing(lo) + SumClosing(D, S \ {d})

\* the columns the select list and the joins of sql_total name, as
\* <<table alias, column>>
TotalSelectRefs ==
  {<<"d", "department">>, <<"d", "product_num">>, <<"d", "anchor_day">>}
  \cup (IF tc_product_name # None THEN {<<"d", "product_name">>} ELSE {})
  \cup (IF tc_qty_fact # None THEN {<<"d", "qty_fact">>} ELSE {})
  \cup (IF tc_qty_plan # None
        THEN (IF c_qty_plan # None THEN {<<"d", "qty_plan">>}
              ELSE {<<"l", "qty_closing">>})
        ELSE {})
  \cup (IF tc_diff_qty # None
        THEN (IF c_diff_qty # None THEN {<<"d", "diff_qty">>}
              ELSE {<<"d", "qty_fact">>, <<"l", "qty_closing">>})
        ELSE {})
  \cup (IF TotalJoinsLifecycle
        THEN {<<"d", "production_day">>, <<"l", "department">>, <<"l", "product_num">>,
              <<"l", "snapshot_day">>, <<"l", "production_day">>}
        ELSE {})

\* the FROM clause of sql_total: table alias -> columns of the table
TotalFrom ==
  IF TotalJoinsLifecycle
  THEN [alias \in {"d", "l"} |-> IF alias = "d" THEN diffCols ELSE LifecycleColumns]
  ELSE [alias \in {"d"} |-> diffCols]

\* PostgreSQL resolves every column reference of a statement, or the
\* statement fails (undefined column, missing FROM-clause entry)
SqlResolves(names, from) ==
  \A ref \in names : ref[1] \in DOMAIN from /\ ref[2] \in from[ref[1]]

SqlTotalValid == SqlResolves(TotalSelectRefs, TotalFrom)

\* the SELECT list of sql_total for one group
TotalRow(D, g) ==
  LET S == {d \in BagToSet(D) : GroupKey(d) = g}
  IN  [department |-> g[1], product_num |-> g[2],
       product_name |-> IF tc_product_name = None THEN None ELSE MaxName(S),
       anchor_day |-> g[3],
       qty_fact_total |-> IF tc_qty_fact = None THEN None ELSE SumQty(D, S, "qty_fact"),
       qty_plan_total |->
         IF tc_qty_plan = None THEN None
         ELSE IF c_qty_plan # None THEN SumQty(D, S, "qty_plan")
         ELSE SumClosing(D, S),
       diff_qty_total |->
         IF tc_diff_qty = None THEN None
         ELSE IF c_diff_qty # None THEN SumQty(D, S, "diff_qty")
         ELSE SumQty(D, S, "qty_fact") - SumClosing(D, S)]

\* the rows sql_total inserts, read from batch_anchor_diff
sql_total(D) == SetToBag({TotalRow(D, g) : g \in {GroupKey(d) : d \in BagToSet(D)}})

\* TRUNCATE TABLE public.batch_anchor_diff / batch_anchor_diff_total
truncate_diff_skipped(D) == D
truncate_diff(D) == EmptyBag
truncate_total_skipped(T) == T
truncate_total(T) == EmptyBag

\* table_exists checks that leave batch_daily_lifecycle out
AllTablesExistButLifecycle == {T_ANCHOR, T_DIFF, T_TOTAL} \subseteq tables

AllTablesExist == RebuildTables \subseteq tables

InitRebuild == Init /\ nullsDistinct

\* the calls of the run that enters refresh_anchor_discrepancies: called on
\* its own (from "idle") it is a run of its own
EntryCalls(entry) == IF entry = "idle" THEN <<>> ELSE calls

\* the four table_exists checks: a table is missing, return
RefreshSkipAt(entry) ==
  /\ pc = entry
  /\ ~AllTablesExist
  /\ pc' = "r_skipped"
  /\ err' = "none"
  /\ diff0' = diff
  /\ total0' = total
  /\ UNCHANGED <<diff, total>>
  /\ calls' = EntryCalls(entry) \o <<RefreshAnchorDiscrepancies>>
  /\ UNCHANGED <<upsertData, sourceVars>>

RefreshSkip == RefreshSkipAt("idle")

\* a required column is missing: pick_one raises RuntimeError
RefreshSchemaRaiseAt(entry) ==
  /\ pc = entry
  /\ AllTablesExist
  /\ ~RebuildSchemaOk
  /\ pc' = "r_failed"
  /\ err' = "no_required_column"
  /\ diff0' = diff
  /\ total0' = total
  /\ UNCHANGED <<diff, total>>
  /\ calls' = EntryCalls(entry) \o <<RefreshAnchorDiscrepancies, DiffCatalog, TotalCatalog>>
  /\ UNCHANGED <<upsertData, sourceVars>>

\* TRUNCATE both tables; conn.commit()
TruncateAt(entry) ==
  /\ pc = entry
  /\ AllTablesExist
  /\ RebuildSchemaOk
  /\ diff' = truncate_diff(diff)
  /\ total' = truncate_total(total)
  /\ pc' = "r_count"
  /\ err' = "none"
  /\ diff0' = diff
  /\ total0' = total
  /\ calls' = EntryCalls(entry) \o <<RefreshAnchorDiscrepancies, DiffCatalog, TotalCatalog>>
  /\ UNCHANGED <<upsertData, sourceVars>>

Truncate == TruncateAt("idle")

\* a TRUNCATE raises: conn.rollback(); raise RuntimeError
TruncateRaiseAt(entry) ==
  /\ pc = entry
  /\ AllTablesExist
  /\ RebuildSchemaOk
  /\ pc' = "r_failed"
  /\ err' = "truncate"
  /\ diff0' = diff
  /\ total0' = total
  /\ UNCHANGED <<diff, total>>
  /\ calls' = EntryCalls(entry) \o <<RefreshAnchorDiscrepancies, DiffCatalog, TotalCatalog>>
  /\ UNCHANGED <<upsertData, sourceVars>>

TruncateRaise == TruncateRaiseAt("idle")

\* SELECT COUNT(*) = 0: conn.commit(); return
CountEmpty ==
  /\ pc = "r_count"
  /\ Cardinality(anchors) = 0
  /\ pc' = "r_done"
  /\ UNCHANGED <<err, upsertVars, sourceVars, derivedVars>>

\* SELECT COUNT(*) > 0: go on to sql_detail
CountNonEmpty ==
  /\ pc = "r_count"
  /\ Cardinality(anchors) # 0
  /\ pc' = "r_detail"
  /\ UNCHANGED <<err, upsertVars, sourceVars, derivedVars>>

\* SELECT COUNT(*) raises; main closes the connection
CountRaise ==
  /\ pc = "r_count"
  /\ pc' = "r_failed"
  /\ err' = "count"
  /\ UNCHANGED <<upsertVars, sourceVars, derivedVars>>

\* cur.execute(sql_detail); conn.commit()
InsertDetail ==
  /\ pc = "r_detail"
  /\ diff' = diff (+) sql_detail(anchors, lifecycle, refs)
  /\ pc' = "r_total"
  /\ UNCHANGED <<err, total, diff0, total0, upsertVars, sourceVars>>

\* cur.execute(sql_detail) raises: conn.rollback(); raise RuntimeError
InsertDetailRaise ==
  /\ pc = "r_detail"
  /\ pc' = "r_failed"
  /\ err' = "detail"
  /\ UNCHANGED <<upsertVars, sourceVars, derivedVars>>

\* cur.execute(sql_total); conn.commit()
InsertTotal ==
  /\ pc = "r_total"
  /\ SqlTotalValid
  /\ total' = total (+) sql_total(diff)
  /\ pc' = "r_done"
  /\ UNCHANGED <<err, diff, diff0, total0, upsertVars, sourceVars>>

\* cur.execute(sql_total) raises: conn.rollback(); raise RuntimeError
InsertTotalRaise ==
  /\ pc = "r_total"
  /\ pc' = "r_failed"
  /\ err' = "total"
  /\ UNCHANGED <<upsertVars, sourceVars, derivedVars>>

\* cur.execute(sql_total) raises because the statement names a column the
\* tables do not have: conn.rollback(); raise RuntimeError
InsertTotalUndefinedColumn ==
  /\ pc = "r_total"
  /\ ~SqlTotalValid
  /\ pc' = "r_failed"
  /\ err' = "undefined_column"
  /\ UNCHANGED <<upsertVars, sourceVars, derivedVars>>

\* refresh_anchor_discrepancies has returned or raised; the run ends
RefreshReturn ==
  /\ pc \in {"r_done", "r_skipped", "r_failed"}
  /\ pc' = "idle"
  /\ settled' = (pc = "r_done")
  /\ calls' = <<>>
  /\ UNCHANGED <<err, upsertData, tables, anchors, lifecycle, refs, edits, derivedVars>>

\* ---- the environment between runs: the anchors are curated by hand, the
\* lifecycle table is recomputed by a stored procedure, tables are created
\* and dropped by migrations
SameAnchorKey(a, b) ==
  /\ a.department = b.department /\ a.product_num = b.product_num
  /\ a.anchor_day = b.anchor_day /\ a.production_day = b.production_day

SameLifecycleKey(a, b) ==
  /\ a.department = b.department /\ a.product_num = b.product_num
  /\ a.snapshot_day = b.snapshot_day /\ a.production_day = b.production_day

EditAnchor ==
  /\ pc = "idle"
  /\ edits < MaxEdits
  /\ T_ANCHOR \in tables
  /\ \/ \E a \in AnchorRows :
          /\ \A b \in anchors : ~SameAnchorKey(a, b)
          /\ anchors' = anchors \cup {a}
     \/ \E a \in anchors : anchors' = anchors \ {a}
  /\ edits' = edits + 1
  /\ settled' = FALSE
  /\ UNCHANGED <<pc, err, upsertVars, tables, lifecycle, refs, derivedVars>>

LifecycleChange ==
  /\ pc = "idle"
  /\ edits < MaxEdits
  /\ T_LIFECYCLE \in tables
  /\ \/ \E l \in LifecycleRows :
          /\ \A m \in lifecycle : ~SameLifecycleKey(l, m)
          /\ lifecycle' = lifecycle \cup {l}
     \/ \E l \in lifecycle : lifecycle' = lifecycle \ {l}
  /\ edits' = edits + 1
  /\ settled' = FALSE
  /\ UNCHANGED <<pc, err, upsertVars, tables, anchors, refs, derivedVars>>

RefChange ==
  /\ pc = "idle"
  /\ edits < MaxEdits
  /\ \/ \E r \in RefRows \ refs : refs' = refs \cup {r}
     \/ \E r \in refs : refs' = refs \ {r}
  /\ edits' = edits + 1
  /\ settled' = FALSE
  /\ UNCHANGED <<pc, err, upsertVars, tables, anchors, lifecycle, derivedVars>>

DropTable ==
  /\ pc = "idle"
  /\ edits < MaxEdits
  /\ \E t \in tables :
       /\ tables' = tables \ {t}
       /\ anchors' = IF t = T_ANCHOR THEN {} ELSE anchors
       /\ lifecycle' = IF t = T_LIFECYCLE THEN {} ELSE lifecycle
       /\ diff' = IF t = T_DIFF THEN EmptyBag ELSE diff
       /\ total' = IF t = T_TOTAL THEN EmptyBag ELSE total
  /\ edits' = edits + 1
  /\ settled' = FALSE
  /\ UNCHANGED <<pc, err, upsertVars, refs, diff0, total0>>

CreateTable ==
  /\ pc = "idle"
  /\ edits < MaxEdits
  /\ \E t \in RebuildTables \ tables : tables' = tables \cup {t}
  /\ edits' = edits + 1
  /\ settled' = FALSE
  /\ UNCHANGED <<pc, err, upsertVars, anchors, lifecycle, refs, derivedVars>>

NextRebuild ==
  \/ RefreshSkip
  \/ Truncate
  \/ TruncateRaise
  \/ CountEmpty
  \/ CountNonEmpty
  \/ CountRaise
  \/ InsertDetail
  \/ InsertDetailRaise
  \/ InsertTotal
  \/ InsertTotalRaise
  \/ RefreshReturn
  \/ EditAnchor
  \/ LifecycleChange
  \/ RefChange
  \/ DropTable
  \/ CreateTable

SpecRebuild == InitRebuild /\ [][NextRebuild]_vars

\* ------------------------------------------------------------ fetch_stock_tx
\* The rows of the OLAP report as resp.json() gives them.  A key the row lacks
\* reads as None (r.get).  The value of "DateTime.DateTyped" is <<>> when it is
\* None and otherwise a string, held as <<its first 10 characters, the rest>>;
\* the value of "Amount.StoreInOutTyped" is <<>> when it is None and <<n>> when
\* it is the number n.
RawDates == {<<>>, <<"2024-05-01", "T00:00:00">>}
RawAmounts == {<<>>, <<1>>}

RawRows ==
  [Department : {None, "A"}, DateTyped : RawDates, ProductNum : Products,
   ProductName : {"n1"}, ProductType : Types, MeasureUnit : Units,
   Document : {None, "", "D1"}, TransactionType : Kinds, Amount : RawAmounts]

RawResults == SeqsUpTo(RawRows, MaxRecs)

\* oper_raw[:10] if isinstance(oper_raw, str) else oper_raw
OperDay(oper_raw) == IF oper_raw = <<>> THEN None ELSE oper_raw[1]

\* float(x or 0)
FloatOrZero(x) == IF x = <<>> THEN 0 ELSE x[1]

\* the dict fetch_stock_tx appends for one report row
NormalizedRow(r) ==
  [department |-> r.Department, oper_day |-> OperDay(r.DateTyped),
   product_num |-> r.ProductNum, product_name |-> r.ProductName,
   product_type |-> r.ProductType, measure_unit |-> r.MeasureUnit,
   document |-> r.Document, transaction_type |-> r.TransactionType,
   turnover |-> FloatOrZero(r.Amount)]

\* for r in data.get("data", []): rows.append(...)
fetch_stock_tx(data) == [i \in 1..Len(data) |-> NormalizedRow(data[i])]

FetchRaw == FetchFrom({fetch_stock_tx(data) : data \in RawResults})

NextFetch ==
  \/ FetchRaw
  \/ UpsertNothing
  \/ WithDocSkip
  \/ WithDocCommit
  \/ WithDocRaise
  \/ NoDocSkip
  \/ NoDocCommit
  \/ NoDocRaise
  \/ Finish

InitFetch == Init

SpecFetch == InitFetch /\ [][NextFetch]_vars

\* ------------------------------------------------------------ main
\* main() as a whole: fetch_stock_tx, upsert_stock_tx, print_db_sample,
\* refresh_datalens_tail, refresh_anchor_discrepancies, on a database whose
\* schema get_table_columns reads anew in every run.
MainRecords ==
  {r \in TxRecords :
     r.oper_day = "2024-05-01" /\ r.product_name = "n1" /\ r.turnover = 1}

MainFetchResults == SeqsUpTo(MainRecords, MaxRecs)

MainAnchor ==
  [department |-> "A", product_num |-> "P1", product_name |-> "n1",
   anchor_day |-> "2024-05-01", production_day |-> "2024-04-29", qty_fact |-> 5]

MainLifecycleRow ==
  [department |-> "A", product_num |-> "P1", snapshot_day |-> "2024-05-01",
   production_day |-> "2024-04-29", qty_closing |-> 4]

MainFetch == FetchFrom(MainFetchResults)

\* upsert_stock_tx alone, on every schema of the ledger
InitSchema ==
  /\ nullsDistinct \in BOOLEAN
  /\ ledger = EmptyBag
  /\ rows = <<>>
  /\ pc = "idle"
  /\ err = "none"
  /\ commits = 0
  /\ clock = 0
  /\ ledger0 = EmptyBag
  /\ rerun = FALSE
  /\ tables = RebuildTables
  /\ anchors = {}
  /\ lifecycle = {}
  /\ refs = {}
  /\ diff = EmptyBag
  /\ total = EmptyBag
  /\ diff0 = EmptyBag
  /\ total0 = EmptyBag
  /\ edits = 0
  /\ settled = FALSE
  /\ ledgerCols \in LedgerSchemas
  /\ diffCols = DiffColumns
  /\ totalCols = TotalColumns
  /\ calls = <<>>
  /\ result = <<>>
  /\ crm = CrmIdle

NextSchema ==
  \/ MainFetch
  \/ UpsertNothing
  \/ UpsertSchemaRaise
  \/ WithDocSkip
  \/ WithDocCommit
  \/ WithDocRaise
  \/ NoDocSkip
  \/ NoDocCommit
  \/ NoDocRaise
  \/ Finish

SpecSchema == InitSchema /\ [][NextSchema]_vars

InitMain ==
  /\ nullsDistinct = TRUE
  /\ ledger = EmptyBag
  /\ rows = <<>>
  /\ pc = "idle"
  /\ err = "none"
  /\ commits = 0
  /\ clock = 0
  /\ ledger0 = EmptyBag
  /\ rerun = FALSE
  /\ tables \in {RebuildTables, RebuildTables \ {T_TOTAL}}
  /\ anchors \in {{}, {MainAnchor}}
  /\ lifecycle = {}
  /\ refs = {}
  /\ diff = EmptyBag
  /\ total = EmptyBag
  /\ diff0 = EmptyBag
  /\ total0 = EmptyBag
  /\ edits = 0
  /\ settled = FALSE
  /\ \/ /\ ledgerCols \in LedgerSchemas
        /\ diffCols = DiffColumns
        /\ totalCols = TotalColumns
     \/ /\ ledgerCols = LedgerColumns
        /\ diffCols \in DiffSchemas
        /\ totalCols \in TotalSchemas
  /\ calls = <<>>
  /\ result = <<>>
  /\ crm = CrmIdle

\* token = get_token() raises, before the try block: main is left at once,
\* no row is fetched, logout is not called
MainTokenRaise ==
  /\ pc = "idle"
  /\ clock < MaxRuns
  /\ rows' = <<>>
  /\ rerun' = FALSE
  /\ clock' = clock + 1
  /\ ledger0' = ledger
  /\ err' = "auth"
  /\ commits' = 0
  /\ pc' = "idle"
  /\ calls' = <<GetToken, GetTokenRaise>>
  /\ UNCHANGED <<nullsDistinct, ledger>>
  /\ UNCHANGED rebuildData

\* get_token has returned a token; fetch_stock_tx raises: no row is
\* fetched, get_pg_connection is not called
MainFetchRaise ==
  /\ pc = "idle"
  /\ clock < MaxRuns
  /\ rows' = <<>>
  /\ rerun' = FALSE
  /\ clock' = clock + 1
  /\ ledger0' = ledger
  /\ err' = "fetch"
  /\ commits' = 0
  /\ pc' = "fetch_failed"
  /\ calls' = <<GetToken, FetchStockTx, FetchStockTxRaise>>
  /\ UNCHANGED <<nullsDistinct, ledger>>
  /\ UNCHANGED rebuildData

\* fetch_stock_tx has returned the rows; conn = get_pg_connection() raises:
\* no connection is opened, the inner try block is not entered
MainConnectRaise ==
  /\ pc = "idle"
  /\ clock < MaxRuns
  /\ rows' \in MainFetchResults
  /\ rerun' = FALSE
  /\ clock' = clock + 1
  /\ ledger0' = ledger
  /\ err' = "connect"
  /\ commits' = 0
  /\ pc' = "fetch_failed"
  /\ calls' = <<GetToken, FetchStockTx, GetPgConnection, GetPgConnectionRaise>>
  /\ UNCHANGED <<nullsDistinct, ledger>>
  /\ UNCHANGED rebuildData

\* a run that goes from the inner try block to the end of main without
\* conn.close() and logout(token)
MainCloseSkipped ==
  /\ pc \in {"failed", "r_done", "r_skipped", "r_failed"}
  /\ pc' = "idle"
  /\ settled' = IF pc = "failed" THEN settled ELSE pc = "r_done"
  /\ UNCHANGED <<err, upsertVars, tables, anchors, lifecycle, refs, edits, derivedVars>>

\* the inner try block is left, by a return of refresh_anchor_discrepancies
\* or by an exception: finally conn.close()
MainClose ==
  /\ pc \in {"failed", "r_done", "r_skipped", "r_failed"}
  /\ pc' = "closed"
  /\ settled' = IF pc = "failed" THEN settled ELSE pc = "r_done"
  /\ calls' = Append(calls, ConnClose)
  /\ UNCHANGED <<err, upsertData, tables, anchors, lifecycle, refs, edits, derivedVars>>

\* the outer try block is left: finally logout(token); the run ends
MainLogout ==
  /\ pc \in {"closed", "fetch_failed"}
  /\ pc' = "idle"
  /\ calls' = Append(calls, Logout)
  /\ UNCHANGED <<err, upsertData, sourceVars, derivedVars>>

\* print_db_sample: a SELECT over the ledger
PrintDbSample ==
  /\ pc = "done"
  /\ pick_turnover_column(ledgerCols) # RuntimeError
  /\ pc' = "sampled"
  /\ UNCHANGED <<nullsDistinct, ledger, rows, err, commits, clock, ledger0, rerun>>
  /\ calls' = calls \o <<PrintDbSampleCall, LedgerCatalog>>
  /\ UNCHANGED rebuildData

\* print_db_sample raises: pick_turnover_column finds no column, or the
\* SELECT fails
PrintDbSampleRaise ==
  /\ pc = "done"
  /\ \/ /\ pick_turnover_column(ledgerCols) = RuntimeError
        /\ err' = "no_turnover_column"
     \/ err' = "db"
  /\ pc' = "failed"
  /\ UNCHANGED <<nullsDistinct, ledger, rows, commits, clock, ledger0, rerun>>
  /\ calls' = calls \o <<PrintDbSampleCall, LedgerCatalog>>
  /\ UNCHANGED rebuildData

\* refresh_datalens_tail, snapshot_to < snapshot_from (the period of the run
\* has date_to <= date_from): return, no procedure is called
RefreshDatalensTailSkip ==
  /\ pc = "sampled"
  /\ pc' = "refresh"
  /\ calls' = Append(calls, RefreshDatalensTailCall)
  /\ UNCHANGED <<err, upsertData, sourceVars, derivedVars>>

\* a refresh_datalens_tail whose exception main would not see
RefreshDatalensTailRaiseSwallowed ==
  /\ pc = "sampled"
  /\ pc' = "refresh"
  /\ err' = "db"
  /\ calls' = calls \o <<RefreshDatalensTailCall, LifecycleProcedure, LifecycleRaise>>
  /\ UNCHANGED <<upsertData, sourceVars, derivedVars>>

\* refresh_datalens_tail: the stored procedure (or, when its CALL raises, the
\* fallback procedure) recomputes batch_daily_lifecycle; conn.commit()
RefreshDatalensTail ==
  /\ pc = "sampled"
  /\ lifecycle' \in {lifecycle, {}, {MainLifecycleRow}}
  /\ settled' = (settled /\ lifecycle' = lifecycle)
  /\ pc' = "refresh"
  /\ calls' = calls \o <<RefreshDatalensTailCall, LifecycleProcedure>>
  /\ UNCHANGED <<err, upsertData, tables, anchors, refs, edits, derivedVars>>

\* both CALLs raise
RefreshDatalensTailRaise ==
  /\ pc = "sampled"
  /\ pc' = "failed"
  /\ err' = "db"
  /\ calls' = calls \o <<RefreshDatalensTailCall, LifecycleProcedure, LifecycleRaise>>
  /\ UNCHANGED <<upsertData, sourceVars, derivedVars>>

MainRefreshSkip == RefreshSkipAt("refresh")
MainRefreshSchemaRaise == RefreshSchemaRaiseAt("refresh")
MainTruncate == TruncateAt("refresh")
MainTruncateRaise == TruncateRaiseAt("refresh")

NextMain ==
  \/ MainFetch
  \/ MainTokenRaise
  \/ MainFetchRaise
  \/ MainConnectRaise
  \/ UpsertNothing
  \/ UpsertSchemaRaise
  \/ WithDocSkip
  \/ WithDocCommit
  \/ WithDocRaise
  \/ NoDocSkip
  \/ NoDocCommit
  \/ NoDocRaise
  \/ PrintDbSample
  \/ PrintDbSampleRaise
  \/ RefreshDatalensTailSkip
  \/ RefreshDatalensTail
  \/ RefreshDatalensTailRaise
  \/ MainRefreshSkip
  \/ MainRefreshSchemaRaise
  \/ MainTruncate
  \/ MainTruncateRaise
  \/ CountEmpty
  \/ CountNonEmpty
  \/ CountRaise
  \/ InsertDetail
  \/ InsertDetailRaise
  \/ InsertTotal
  \/ InsertTotalRaise
  \/ InsertTotalUndefinedColumn
  \/ MainClose
  \/ MainLogout

SpecMain == InitMain /\ [][NextMain]_vars

\* ------------------------------------------------------------ functions called on their own
\* pick_turnover_column and aggregate_rows read nothing but their arguments:
\* each is called once on an input drawn by the initial state, and result
\* holds what it returned.
InitCall(inputs, schemas) ==
  /\ nullsDistinct = TRUE
  /\ ledger = EmptyBag
  /\ rows \in inputs
  /\ pc = "idle"
  /\ err = "none"
  /\ commits = 0
  /\ clock = 0
  /\ ledger0 = EmptyBag
  /\ rerun = FALSE
  /\ tables = RebuildTables
  /\ anchors = {}
  /\ lifecycle = {}
  /\ refs = {}
  /\ diff = EmptyBag
  /\ total = EmptyBag
  /\ diff0 = EmptyBag
  /\ total0 = EmptyBag
  /\ edits = 0
  /\ settled = FALSE
  /\ ledgerCols \in schemas
  /\ diffCols = DiffColumns
  /\ totalCols = TotalColumns
  /\ calls = <<>>
  /\ result = <<>>
  /\ crm = CrmIdle

\* column names a ledger may have: the four candidates and two others
PickUniverse ==
  {"turnover", "store_in_out", "amount_store_in_out", "amount", "department", "oper_day"}

InitPick == InitCall({<<>>}, SUBSET PickUniverse)

\* pick_turnover_column(cols) returns a column
PickReturn ==
  /\ pc = "idle"
  /\ pick_turnover_column(ledgerCols) # RuntimeError
  /\ result' = pick_turnover_column(ledgerCols)
  /\ pc' = "returned"
  /\ UNCHANGED <<nullsDistinct, ledger, rows, err, commits, clock, ledger0, rerun, calls>>
  /\ UNCHANGED <<sourceVars, derivedVars, schemaVars, crm>>

\* pick_turnover_column(cols) raises RuntimeError
PickRaise ==
  /\ pc = "idle"
  /\ pick_turnover_column(ledgerCols) = RuntimeError
  /\ result' = RuntimeError
  /\ pc' = "raised"
  /\ UNCHANGED <<nullsDistinct, ledger, rows, err, commits, clock, ledger0, rerun, calls>>
  /\ UNCHANGED <<sourceVars, derivedVars, schemaVars, crm>>

NextPick == PickReturn \/ PickRaise

SpecPick == InitPick /\ [][NextPick]_vars

\* the turnovers aggregate_rows is called on: 1.0, 2.0 and 2^53
AggTurnovers == {1, 2, TwoTo53}

\* the records aggregate_rows is called on: one day, every name, document
\* and turnover
AggRecords ==
  [department : Departments, oper_day : {"2024-05-01"}, product_num : Products,
   product_name : Names, product_type : Types, measure_unit : Units,
   document : Documents, transaction_type : Kinds, turnover : AggTurnovers]

InitAggregate == InitCall(SeqsUpTo(AggRecords, MaxAggLen), {LedgerColumns})

\* aggregate_rows(rows, with_document) returns
AggregateReturn ==
  /\ pc = "idle"
  /\ \E with_document \in BOOLEAN :
       result' = [with_document |-> with_document,
                  rows |-> aggregate_rows(rows, with_document)]
  /\ pc' = "returned"
  /\ UNCHANGED <<nullsDistinct, ledger, rows, err, commits, clock, ledger0, rerun, calls>>
  /\ UNCHANGED <<sourceVars, derivedVars, schemaVars, crm>>

NextAggregate == AggregateReturn

SpecAggregate == InitAggregate /\ [][NextAggregate]_vars

\* ------------------------------------------------------------ etl_iiko_t1_light_crm
\* main() of the CRM loader: get_token, then for every chunk of the period
\* fetch_t1_light_with_token_refresh and upsert_t1_light, finally logout.
\* crm.attempt is the loop variable of the for loop, crm.requests counts the
\* requests.post calls of the current fetch, crm.refreshed its 401 branches,
\* crm.token the tokens issued so far, crm.response what the last request
\* ended with.

\* HTTP_RETRIES = int(os.getenv("HTTP_RETRIES", "3"))
HTTP_RETRIES == 3

\* the errors requests raises for a request: err of a run that raised one
RequestErrors == {"network", "http"}

\* a 401 branch after which the for loop would run the same attempt again
AfterRefreshSameAttempt(attempt) == attempt

\* continue: the for loop goes on to the next value of range(1, HTTP_RETRIES + 1)
AfterRefresh(attempt) == attempt + 1

\* raise last_err, after the loop: raise None is a TypeError
RaiseLastErr(last_err) == IF last_err = None THEN "TypeError" ELSE last_err

crmFrame == <<nullsDistinct, ledger, rows, commits, ledger0, rerun, calls, result,
              sourceVars, derivedVars, schemaVars>>

\* main: token_ref = {"token": get_token()}; the chunks; the first call of
\* fetch_t1_light_with_token_refresh is entered
CrmMain ==
  /\ pc = "idle"
  /\ clock < MaxRuns
  /\ clock' = clock + 1
  /\ \E n \in 1..MaxChunks :
       crm' = [chunks |-> n, chunk |-> 1, attempt |-> 1, requests |-> 0,
               refreshed |-> 0, token |-> 1, last_err |-> None, response |-> None]
  /\ err' = "none"
  /\ pc' = "c_loop"
  /\ UNCHANGED crmFrame

\* main: get_token() raises, before the try block: main is left at once,
\* nothing is fetched, logout is not called
CrmTokenRaise ==
  /\ pc = "idle"
  /\ clock < MaxRuns
  /\ clock' = clock + 1
  /\ err' = "auth"
  /\ UNCHANGED <<pc, crm, crmFrame>>

\* the request is answered below 400: return resp.json()
CrmOk ==
  /\ pc = "c_loop"
  /\ crm' = [crm EXCEPT !.requests = @ + 1, !.response = "ok"]
  /\ pc' = "c_upsert"
  /\ UNCHANGED <<err, clock, crmFrame>>

\* status 401, logout(token), get_token() returns: continue; after the last
\* attempt the loop ends and raise last_err runs
Crm401 ==
  /\ pc = "c_loop"
  /\ LET next == AfterRefresh(crm.attempt)
     IN  IF next <= HTTP_RETRIES
         THEN /\ crm' = [crm EXCEPT !.requests = @ + 1, !.response = "401",
                                    !.refreshed = @ + 1, !.token = @ + 1,
                                    !.attempt = next]
              /\ pc' = "c_loop"
              /\ UNCHANGED err
         ELSE /\ crm' = [crm EXCEPT !.requests = @ + 1, !.response = "401",
                                    !.refreshed = @ + 1, !.token = @ + 1]
              /\ pc' = "c_raised"
              /\ err' = RaiseLastErr(crm.last_err)
  /\ UNCHANGED <<clock, crmFrame>>

\* status 401 and get_token() raises an HTTPError: except Exception: raise
Crm401TokenHttpError ==
  /\ pc = "c_loop"
  /\ crm' = [crm EXCEPT !.requests = @ + 1, !.response = "401", !.refreshed = @ + 1]
  /\ pc' = "c_raised"
  /\ err' = "http"
  /\ UNCHANGED <<clock, crmFrame>>

\* status 401 and get_token() raises ReadTimeout or ConnectionError: the
\* first except clause catches it
Crm401TokenNetwork ==
  /\ pc = "c_loop"
  /\ IF crm.attempt < HTTP_RETRIES
     THEN /\ crm' = [crm EXCEPT !.requests = @ + 1, !.response = "401",
                                !.refreshed = @ + 1, !.last_err = "network",
                                !.attempt = @ + 1]
          /\ pc' = "c_loop"
          /\ UNCHANGED err
     ELSE /\ crm' = [crm EXCEPT !.requests = @ + 1, !.response = "401",
                                !.refreshed = @ + 1, !.last_err = "network"]
          /\ pc' = "c_raised"
          /\ err' = "network"
  /\ UNCHANGED <<clock, crmFrame>>

\* any other status from 400 on: resp.raise_for_status() raises;
\* except Exception: raise
CrmHttpError ==
  /\ pc = "c_loop"
  /\ crm' = [crm EXCEPT !.requests = @ + 1, !.response = "http_error"]
  /\ pc' = "c_raised"
  /\ err' = "http"
  /\ UNCHANGED <<clock, crmFrame>>

\* ReadTimeout or ConnectionError with attempt < HTTP_RETRIES: sleep, next
\* attempt
CrmNetworkRetry ==
  /\ pc = "c_loop"
  /\ crm.attempt < HTTP_RETRIES
  /\ crm' = [crm EXCEPT !.requests = @ + 1, !.response = "network",
                        !.last_err = "network", !.attempt = @ + 1]
  /\ pc' = "c_loop"
  /\ UNCHANGED <<err, clock, crmFrame>>

\* ReadTimeout or ConnectionError on the last attempt: raise
CrmNetworkRaise ==
  /\ pc = "c_loop"
  /\ crm.attempt >= HTTP_RETRIES
  /\ crm' = [crm EXCEPT !.requests = @ + 1, !.response = "network",
                        !.last_err = "network"]
  /\ pc' = "c_raised"
  /\ err' = "network"
  /\ UNCHANGED <<clock, crmFrame>>

\* upsert_t1_light returns; the next chunk, or the end of the for loop of main
CrmUpsert ==
  /\ pc = "c_upsert"
  /\ IF crm.chunk < crm.chunks
     THEN /\ crm' = [crm EXCEPT !.chunk = @ + 1, !.attempt = 1, !.requests = 0,
                                !.refreshed = 0, !.last_err = None,
                                !.response = None]
          /\ pc' = "c_loop"
     ELSE /\ pc' = "c_done"
          /\ UNCHANGED crm
  /\ UNCHANGED <<err, clock, crmFrame>>

\* upsert_t1_light raises
CrmUpsertRaise ==
  /\ pc = "c_upsert"
  /\ pc' = "c_raised"
  /\ err' = "db"
  /\ UNCHANGED <<crm, clock, crmFrame>>

\* main: finally logout(token_ref["token"]); the run ends
CrmLogout ==
  /\ pc \in {"c_done", "c_raised"}
  /\ pc' = "idle"
  /\ crm' = CrmIdle
  /\ UNCHANGED <<err, clock, crmFrame>>

NextCrm ==
  \/ CrmMain
  \/ CrmTokenRaise
  \/ CrmOk
  \/ Crm401
  \/ Crm401TokenHttpError
  \/ Crm401TokenNetwork
  \/ CrmHttpError
  \/ CrmNetworkRetry
  \/ CrmNetworkRaise
  \/ CrmUpsert
  \/ CrmUpsertRaise
  \/ CrmLogout

InitCrm == InitCall({<<>>}, {LedgerColumns})

SpecCrm == InitCrm /\ [][NextCrm]_vars

\* ------------------------------------------------------------ identity keys
\* the identity key of a fetched record: document-scoped when it carries a
\* document reference, day-scoped otherwise
RecIdentity(r) ==
  IF HasDoc(r)
  THEN <<"doc", r.department, r.product_num, r.document, r.transaction_type>>
  ELSE <<"day", r.department, r.oper_day, r.product_num, r.transaction_type>>

\* the identity key of a ledger row
RowIdentity(r) ==
  IF r.document # None
  THEN <<"doc", r.department, r.product_num, r.document, r.transaction_type>>
  ELSE <<"day", r.department, r.oper_day, r.product_num, r.transaction_type>>

RECURSIVE TurnoverOf(_, _, _)
TurnoverOf(rs, k, i) ==
  IF i > Len(rs) THEN 0
  ELSE (IF RecIdentity(rs[i]) = k THEN rs[i].turnover ELSE 0) + TurnoverOf(rs, k, i + 1)

RowsOf(B) == BagToSet(B)

SameDayAndProduct(a, b) ==
  /\ a.department = b.department /\ a.product_num = b.product_num
  /\ a.oper_day = b.oper_day /\ a.transaction_type = b.transaction_type

\* a ledger row without its update timestamp
Untimed(r) ==
  [department |-> r.department, oper_day |-> r.oper_day,
   product_num |-> r.product_num, product_name |-> r.product_name,
   product_type |-> r.product_type, measure_unit |-> r.measure_unit,
   document |-> r.document, transaction_type |-> r.transaction_type,
   turnover |-> r.turnover]

RECURSIVE CopiesSum(_, _)
CopiesSum(B, S) ==
  IF S = {} THEN 0
  ELSE LET x == CHOOSE x \in S : TRUE IN B[x] + CopiesSum(B, S \ {x})

\* the ledger as a bag of rows without updated_at
UntimedBag(B) ==
  [u \in {Untimed(r) : r \in RowsOf(B)} |->
     CopiesSum(B, {r \in RowsOf(B) : Untimed(r) = u})]

UpsertReturned == pc \in {"done", "failed"}

\* ------------------------------------------------------------ claims
\* C1. Aggregation correctness: when upsert_stock_tx has run on the fetched
\* records (and the database itself did not fail), every identity key of the
\* records has a ledger row, and each ledger row of that key carries the sum
\* of the turnovers of the records of the key, also when those records differ
\* in oper_day or in a descriptive field.
C1_AggregationCorrectness ==
  (UpsertReturned /\ err # "db") =>
    \A i \in 1..Len(rows) :
      LET k == RecIdentity(rows[i]) IN
        /\ \E r \in RowsOf(ledger) : RowIdentity(r) = k
        /\ \A r \in RowsOf(ledger) :
             RowIdentity(r) = k => r.turnover = TurnoverOf(rows, k, 1)

\* C2. Upserter idempotence: a run that repeats the input of the previous run
\* (both runs raising nothing) leaves the ledger with the same rows and field
\* values, updated_at apart; it adds no row.
C2_UpsertIdempotent ==
  (pc = "done" /\ rerun) =>
    /\ UntimedBag(ledger) = UntimedBag(ledger0)
    /\ BagCardinality(ledger) = BagCardinality(ledger0)

\* C3. Key-family selection: the document-scoped statement leaves every ledger
\* row without a document reference as it was, the day-scoped statement leaves
\* every row with a document reference as it was, and after a run that carried
\* both a record with and a record without a document reference for the same
\* department, product, day and kind the ledger holds the two rows separately.
C3_StatementsKeepFamilies ==
  /\ (pc = "upsert" /\ pc' = "no_doc") =>
       \A r \in RowsOf(ledger) \cup RowsOf(ledger') :
         r.document = None => CopiesIn(r, ledger') = CopiesIn(r, ledger)
  /\ (pc = "no_doc" /\ pc' = "done") =>
       \A r \in RowsOf(ledger) \cup RowsOf(ledger') :
         r.document # None => CopiesIn(r, ledger') = CopiesIn(r, ledger)

C3_BothRowsExist ==
  pc = "done" =>
    \A i, j \in 1..Len(rows) :
      (HasDoc(rows[i]) /\ NoDoc(rows[j]) /\ SameDayAndProduct(rows[i], rows[j])) =>
        /\ \E r \in RowsOf(ledger) :
             r.document = rows[i].document /\ SameDayAndProduct(r, rows[i])
        /\ \E r \in RowsOf(ledger) :
             r.document = None /\ SameDayAndProduct(r, rows[j])

\* C3. Key-family selection, whole statement: in every step of every run the
\* two statements keep to their own key family, and after every run that
\* carried both kinds of record both rows exist.
C3_KeyFamilySeparation ==
  [][C3_StatementsKeepFamilies]_vars /\ []C3_BothRowsExist

\* C3 witness: a record with a document reference was upserted while the
\* ledger already held a row without one for the same department, product,
\* day and kind; both rows are in the ledger afterwards.
C3_Witness ==
  /\ pc = "done"
  /\ \E r0 \in RowsOf(ledger0), i \in 1..Len(rows) :
       /\ r0.document = None
       /\ HasDoc(rows[i])
       /\ SameDayAndProduct(r0, rows[i])
       /\ BagIn(r0, ledger)
       /\ \E r1 \in RowsOf(ledger) :
            r1.document = rows[i].document /\ SameDayAndProduct(r1, r0)

\* C9. Upserter atomicity: upsert_stock_tx commits at most once in a run, and
\* when it raises the ledger is as it was before the run.
C9_UpsertAtomic ==
  /\ commits <= 1
  /\ pc = "failed" => ledger = ledger0

\* C10. Ledger uniqueness: no two ledger rows share a document-scoped key
\* (rows with a document reference) or a day-scoped key (rows without one).
C10_LedgerUnique ==
  \A r1, r2 \in RowsOf(ledger) :
    /\ CopiesIn(r1, ledger) = 1
    /\ RowIdentity(r1) = RowIdentity(r2) => r1 = r2

\* the turnover the run reports for a document-scoped key
RECURSIVE DocTurnover(_, _, _)
DocTurnover(rs, k, i) ==
  IF i > Len(rs) THEN 0
  ELSE (IF HasDoc(rs[i]) /\ DocKey(rs[i]) = k THEN rs[i].turnover ELSE 0)
       + DocTurnover(rs, k, i + 1)

\* C11. Document-scoped rows track the latest operating day: once the
\* document-scoped statement of a run has committed, every document the run
\* reported has exactly one ledger row, whatever operating day the ledger held
\* for it before, and that row carries the operating day, the descriptive
\* fields and the turnover the run reported for the document.
C11_DocRowTracksLatest ==
  (pc \in {"no_doc", "done"}) =>
    \A i \in 1..Len(rows) :
      HasDoc(rows[i]) =>
        LET S == {r \in RowsOf(ledger) : r.document # None /\ DocKey(r) = DocKey(rows[i])}
        IN  /\ Cardinality(S) = 1
            /\ \A r \in S :
                 /\ CopiesIn(r, ledger) = 1
                 /\ r.oper_day = rows[i].oper_day
                 /\ r.product_name = rows[i].product_name
                 /\ r.product_type = rows[i].product_type
                 /\ r.measure_unit = rows[i].measure_unit
                 /\ r.turnover = DocTurnover(rows, DocKey(rows[i]), 1)

\* C11 witness: the ledger held a row of the document under another operating
\* day and another name before the run; after the run it holds one row of the
\* document, under the run's operating day and name.
C11_Witness ==
  /\ pc = "done"
  /\ \E i \in 1..Len(rows), r0 \in RowsOf(ledger0), r \in RowsOf(ledger) :
       /\ HasDoc(rows[i])
       /\ DocKey(r0) = DocKey(rows[i]) /\ DocKey(r) = DocKey(rows[i])
       /\ r0.oper_day # rows[i].oper_day /\ r0.product_name # rows[i].product_name
       /\ r.oper_day = rows[i].oper_day /\ r.product_name = rows[i].product_name
       /\ r.turnover = rows[i].turnover /\ r0.turnover # r.turnover
       /\ BagCardinality(ledger) = BagCardinality(ledger0)

\* C18. Ledger rows never deleted: no step of any run removes an identity key
\* from the ledger or lowers its number of rows.
C18_StepKeepsKeys ==
  /\ \A r \in RowsOf(ledger) :
       \E r2 \in RowsOf(ledger') : RowIdentity(r2) = RowIdentity(r)
  /\ BagCardinality(ledger') >= BagCardinality(ledger)

C18_NeverDeleted == [][C18_StepKeepsKeys]_vars

\* C18 witness: a run updated a row that was in the ledger before it and added
\* none, and every identity key of before is still there.
C18_Witness ==
  /\ pc = "done"
  /\ ledger0 # EmptyBag /\ ledger # ledger0
  /\ BagCardinality(ledger) = BagCardinality(ledger0)
  /\ \A r \in RowsOf(ledger0) :
       \E r2 \in RowsOf(ledger) : RowIdentity(r2) = RowIdentity(r)

\* ------------------------------------------------------------ rebuild claims
RebuildCompleted == pc = "r_done"
RefreshReturned == pc \in {"r_done", "r_skipped"}

DetailKeyOfAnchor(d, a) ==
  /\ d.department = a.department /\ d.product_num = a.product_num
  /\ d.anchor_day = a.anchor_day /\ d.production_day = a.production_day

DetailKeyOfPlan(d, l) ==
  /\ d.department = l.department /\ d.product_num = l.product_num
  /\ d.anchor_day = l.snapshot_day /\ d.production_day = l.production_day

\* the plan of an anchor: the closing quantity of the lifecycle row of its
\* department, product, anchor day and production day, 0 when there is none
PlanOfAnchor(a) ==
  IF \E l \in lifecycle :
       /\ l.department = a.department /\ l.product_num = a.product_num
       /\ l.snapshot_day = a.anchor_day /\ l.production_day = a.production_day
  THEN (CHOOSE l \in lifecycle :
          /\ l.department = a.department /\ l.product_num = a.product_num
          /\ l.snapshot_day = a.anchor_day /\ l.production_day = a.production_day).qty_closing
  ELSE 0

\* C4 as stated. Empty-anchor invariant: whenever refresh_anchor_discrepancies
\* has returned while batch_manual_anchor has zero rows, batch_anchor_diff and
\* batch_anchor_diff_total are empty.
C4_EmptyAnchorAsStated ==
  (RefreshReturned /\ {T_ANCHOR, T_DIFF, T_TOTAL} \subseteq tables /\ anchors = {}) =>
    (diff = EmptyBag /\ total = EmptyBag)

\* C4 amended. Whenever refresh_anchor_discrepancies has returned without
\* skipping the rebuild (the four tables exist) while batch_manual_anchor has
\* zero rows, batch_anchor_diff and batch_anchor_diff_total are empty.
C4_EmptyAnchor ==
  (RebuildCompleted /\ anchors = {}) =>
    (diff = EmptyBag /\ total = EmptyBag)

\* C4 witness: the rebuild completed with no anchors, and it emptied
\* discrepancy tables that held rows before.
C4_Witness ==
  /\ RebuildCompleted /\ anchors = {}
  /\ diff0 # EmptyBag /\ total0 # EmptyBag
  /\ diff = EmptyBag /\ total = EmptyBag

\* C5. Diff correctness (detail): after the detail insert of a rebuild, every
\* anchor row has a batch_anchor_diff row of its department, product, anchor
\* day and production day, and every such row carries the anchor's fact, as
\* plan the closing quantity of the lifecycle row of that key (0 when there is
\* none) and as diff the fact minus that plan.
C5_DetailCorrect ==
  (pc \in {"r_total", "r_done"}) =>
    \A a \in anchors :
      /\ \E d \in RowsOf(diff) : DetailKeyOfAnchor(d, a)
      /\ \A d \in RowsOf(diff) :
           DetailKeyOfAnchor(d, a) =>
             /\ d.qty_fact = a.qty_fact
             /\ d.qty_plan = PlanOfAnchor(a)
             /\ d.diff_qty = a.qty_fact - PlanOfAnchor(a)

\* C5 witness: a completed rebuild with one anchor that has a lifecycle row
\* (plan = its closing quantity) and one that has none (plan = 0).
C5_Witness ==
  /\ RebuildCompleted
  /\ \E a \in anchors, l \in lifecycle, d \in RowsOf(diff) :
       /\ JoinLifecycle(a, l) /\ DetailKeyOfAnchor(d, a)
       /\ d.qty_plan = l.qty_closing /\ d.diff_qty = a.qty_fact - l.qty_closing
  /\ \E a \in anchors, d \in RowsOf(diff) :
       /\ \A l \in lifecycle : ~JoinLifecycle(a, l)
       /\ DetailKeyOfAnchor(d, a)
       /\ d.qty_plan = 0 /\ d.diff_qty = a.qty_fact

\* C6. Plan-without-fact: after a rebuild with anchors, every lifecycle row of
\* an anchored (department, product, snapshot day) has a batch_anchor_diff row
\* of its production day; when no anchor has that production day the row has
\* fact 0 and diff = -plan.
C6_PlanWithoutFact ==
  (RebuildCompleted /\ anchors # {}) =>
    \A l \in lifecycle :
      (\E a \in anchors : JoinLifecycleAnyBatch(a, l)) =>
        \E d \in RowsOf(diff) :
          /\ DetailKeyOfPlan(d, l)
          /\ (\A a \in anchors : ~JoinLifecycle(a, l)) =>
               (d.qty_fact = 0 /\ d.diff_qty = 0 - l.qty_closing)

\* C7. Rebuild atomicity: while a rebuild with anchors is under way no
\* committed state differs from the one before the run: truncation and the two
\* inserts become visible together, so a run cut short leaves the tables as
\* they were.
C7_RebuildAtomic ==
  (pc \in {"r_count", "r_detail", "r_total"} /\ anchors # {}) =>
    (diff = diff0 /\ total = total0)

\* C8. Rebuilder failure rollback: when the rebuild raised in the insert into
\* batch_anchor_diff or into batch_anchor_diff_total, both tables hold what
\* they held before the run.
C8_RebuildRollback ==
  (pc = "r_failed" /\ err \in {"detail", "total"}) =>
    (diff = diff0 /\ total = total0)

SameGroup(t, d) ==
  /\ t.department = d.department /\ t.product_num = d.product_num
  /\ t.anchor_day = d.anchor_day

\* the sum of field f over the batch_anchor_diff rows S, each counted as often
\* as the table holds it
RECURSIVE DetailSum(_, _)
DetailSum(S, f) ==
  IF S = {} THEN 0
  ELSE LET e == CHOOSE e \in S : TRUE
       IN  CopiesIn(e, diff) * Qty(e, f) + DetailSum(S \ {e}, f)

\* C16. DiffTotal correctness: after a rebuild, batch_anchor_diff_total holds
\* exactly one row for every (department, product, anchor day) that has a row
\* in batch_anchor_diff and no other row, and the row's fact, plan and diff
\* are the sums of the fact, plan and diff of the batch_anchor_diff rows of
\* that department, product and anchor day.
C16_TotalCorrect ==
  RebuildCompleted =>
    /\ \A d \in RowsOf(diff) :
         LET T == {t \in RowsOf(total) : SameGroup(t, d)}
             S == {e \in RowsOf(diff) : SameGroup(e, d)}
         IN  /\ Cardinality(T) = 1
             /\ \A t \in T :
                  /\ CopiesIn(t, total) = 1
                  /\ t.qty_fact_total = DetailSum(S, "qty_fact")
                  /\ t.qty_plan_total = DetailSum(S, "qty_plan")
                  /\ t.diff_qty_total = DetailSum(S, "diff_qty")
    /\ \A t \in RowsOf(total) : \E d \in RowsOf(diff) : SameGroup(t, d)

\* C16 witness: a completed rebuild where an anchor day has two
\* batch_anchor_diff rows, and its total row carries the sum of their facts
\* and of their plans, one plan being non-zero.
C16_Witness ==
  /\ RebuildCompleted
  /\ \E t \in RowsOf(total), d1, d2 \in RowsOf(diff) :
       /\ d1 # d2 /\ SameGroup(t, d1) /\ SameGroup(t, d2)
       /\ d1.qty_plan # 0
       /\ t.qty_fact_total = d1.qty_fact + d2.qty_fact
       /\ t.qty_plan_total = d1.qty_plan + d2.qty_plan
       /\ t.diff_qty_total = t.qty_fact_total - t.qty_plan_total

\* C17. DiffDetail key uniqueness: after the detail insert of a rebuild,
\* batch_anchor_diff holds at most one row per (department, product, anchor
\* day, production day), however many lifecycle or product-reference rows
\* match an anchor.
C17_DetailKeyUnique ==
  (pc \in {"r_total", "r_done"}) =>
    \A d1, d2 \in RowsOf(diff) :
      /\ CopiesIn(d1, diff) = 1
      /\ DetailKeyOfAnchor(d1, d2) => d1 = d2

RefreshEntered == pc \in {"r_skipped", "r_count", "r_detail", "r_total", "r_done", "r_failed"}

\* C30. Rebuild is skipped when a table is missing: whenever
\* refresh_anchor_discrepancies has been entered while one of
\* batch_manual_anchor, batch_anchor_diff, batch_anchor_diff_total and
\* batch_daily_lifecycle does not exist, it has returned without raising, and
\* the two discrepancy tables hold the rows they held when it was entered.
C30_SkipWhenTableMissing ==
  (RefreshEntered /\ ~(RebuildTables \subseteq tables)) =>
    /\ pc = "r_skipped" /\ err = "none"
    /\ diff = diff0 /\ total = total0

\* C30 witness: batch_daily_lifecycle is missing, the discrepancy tables hold
\* rows of an earlier rebuild, and the refresh returned leaving them there.
C30_Witness ==
  /\ pc = "r_skipped"
  /\ T_LIFECYCLE \notin tables
  /\ diff # EmptyBag /\ total # EmptyBag
  /\ diff = diff0 /\ total = total0

\* ------------------------------------------------------------ schema claims
\* stock_tx_iiko has none of the turnover-column candidates
NoTurnoverColumn ==
  \A i \in 1..Len(TurnoverCandidates) : TurnoverCandidates[i] \notin ledgerCols

\* upsert_stock_tx has returned or raised in the current run
UpsertLeft == pc \notin {"idle", "upsert"}

\* C12 as stated. Fail-fast on the ledger schema: when stock_tx_iiko has none
\* of the turnover-column candidates, upsert_stock_tx raises before any INSERT
\* or commit, and the ledger is unchanged.
C12_FailFastAsStated ==
  (NoTurnoverColumn /\ UpsertLeft) =>
    /\ pc = "failed" /\ err = "no_turnover_column"
    /\ commits = 0 /\ ledger = ledger0

\* C12 amended. When stock_tx_iiko has none of the turnover-column candidates
\* and upsert_stock_tx is given at least one row, it raises before any INSERT
\* or commit, and the ledger is unchanged.
C12_FailFast ==
  (NoTurnoverColumn /\ rows # <<>> /\ UpsertLeft) =>
    /\ pc = "failed" /\ err = "no_turnover_column"
    /\ commits = 0 /\ ledger = ledger0

\* C12 witness: upsert_stock_tx was given rows on a ledger without a turnover
\* column and raised, with no commit.
C12_Witness ==
  /\ NoTurnoverColumn /\ rows # <<>>
  /\ pc = "failed" /\ err = "no_turnover_column"
  /\ commits = 0 /\ ledger = ledger0

\* C13. Schema mismatch on the discrepancy tables aborts before any mutation:
\* when the run fails because batch_anchor_diff or batch_anchor_diff_total
\* lacks a required column, the run has written nothing: the ledger and the
\* two discrepancy tables are as they were when the run started.
C13_AbortBeforeMutation ==
  (pc = "r_failed" /\ err = "no_required_column") =>
    /\ ledger = ledger0 /\ commits = 0
    /\ diff = diff0 /\ total = total0

\* C14. Schema-drift tolerance of the rebuild: on every schema whose required
\* columns are present under an accepted name, a rebuild over a non-empty
\* batch_manual_anchor does not fail on a column name, and when it completes
\* both discrepancy tables hold rows.
C14_DriftTolerated ==
  (RebuildSchemaOk /\ anchors # {}) =>
    /\ pc = "r_failed" => err # "undefined_column"
    /\ pc = "r_done" => (diff # EmptyBag /\ total # EmptyBag)

\* C19. Key family follows the schema: when stock_tx_iiko has no document
\* column (and has a turnover column) the run does not fail for it, and once
\* upsert_stock_tx has returned every record has a ledger row of its
\* department, day, product and kind.
C19_DayKeyWithoutDocumentColumn ==
  (~has_document /\ ~NoTurnoverColumn) =>
    /\ err # "no_document_column"
    /\ pc = "done" =>
         \A i \in 1..Len(rows) :
           \E r \in RowsOf(ledger) : SameDayAndProduct(r, rows[i])

\* ------------------------------------------------------------ fetch claims
WellFormed(r) == r.department # None /\ r.oper_day # None

\* C20. Record-shape recovery: a report row without a department or without
\* an operating day is dropped by fetch_stock_tx: no such record is among the
\* rows handed to upsert_stock_tx, none is in the ledger, and the run does
\* not fail because of it.
C20_MalformedDropped ==
  /\ pc \in {"upsert", "no_doc", "done", "failed"} =>
       \A i \in 1..Len(rows) : WellFormed(rows[i])
  /\ \A r \in RowsOf(ledger) : WellFormed(r)


\* ------------------------------------------------------------ claims on main
\* the positions of a call in the calls of the run
Positions(e) == {i \in DOMAIN calls : calls[i] = e}

Called(e) == Positions(e) # {}

\* refresh_anchor_discrepancies is called only after upsert_stock_tx has
\* returned and, after that, the call ev has been made
RebuildAfter(ev) ==
  \A i \in Positions(RefreshAnchorDiscrepancies) :
    \E u \in 1..(i - 1), t \in 1..(i - 1) :
      /\ u < t
      /\ calls[u] = UpsertStockTxReturn
      /\ calls[t] = ev

\* upsert_stock_tx was entered and left without returning
UpsertRaised ==
  /\ Called(UpsertStockTx)
  /\ ~Called(UpsertStockTxReturn)
  /\ pc \notin {"upsert", "no_doc"}

NoRebuildAfterRaise ==
  (UpsertRaised \/ Called(LifecycleRaise)) => ~Called(RefreshAnchorDiscrepancies)

\* a step of a run that has not called refresh_anchor_discrepancies leaves
\* batch_anchor_diff and batch_anchor_diff_total as they are
TablesKeptOutsideRebuild ==
  (\A i \in DOMAIN calls' : calls'[i] # RefreshAnchorDiscrepancies) =>
    (diff' = diff /\ total' = total)

\* C23 as stated. Pipeline ordering: in every run the Rebuilder starts only
\* after the Upserter has completed and after the lifecycle refresh procedure
\* has been invoked; if the Upserter or the lifecycle refresh raises, the
\* Rebuilder does not run in that run and the discrepancy tables are left as
\* they were.
C23_OrderingAsStated ==
  /\ [](RebuildAfter(LifecycleProcedure) /\ NoRebuildAfterRaise)
  /\ [][TablesKeptOutsideRebuild]_vars

\* C23 amended. In every run the Rebuilder starts only after the Upserter has
\* completed and after refresh_datalens_tail has returned (it invokes the
\* lifecycle procedure unless the period of the run is empty); if the Upserter
\* or the lifecycle refresh raises, the Rebuilder does not run in that run and
\* the discrepancy tables are left as they were.
C23_Ordering ==
  /\ [](RebuildAfter(RefreshDatalensTailCall) /\ NoRebuildAfterRaise)
  /\ [][TablesKeptOutsideRebuild]_vars

\* C23 witness: a run with an empty period rebuilt the discrepancy tables,
\* after the upsert and after refresh_datalens_tail, which called no procedure.
C23_Witness ==
  /\ pc = "r_done"
  /\ diff # EmptyBag
  /\ Called(UpsertStockTxReturn)
  /\ Called(RefreshDatalensTailCall)
  /\ ~Called(LifecycleProcedure)

\* C24. Single schema snapshot: within one run the column catalog of each of
\* stock_tx_iiko, batch_anchor_diff and batch_anchor_diff_total is queried at
\* most once, and exactly once in a run that completes the rebuild.
C24_SingleSchemaSnapshot ==
  \A t \in {LedgerCatalog, DiffCatalog, TotalCatalog} :
    /\ Cardinality(Positions(t)) <= 1
    /\ (pc = "r_done" => Cardinality(Positions(t)) = 1)

\* get_token was called and returned a token
TokenObtained == Called(GetToken) /\ ~Called(GetTokenRaise)

\* the calls of get_pg_connection that returned a connection
Opened ==
  {j \in Positions(GetPgConnection) :
     ~(j < Len(calls) /\ calls[j + 1] = GetPgConnectionRaise)}

\* C29. Session and connection release: a run that obtained a token has
\* called logout when it ends, and logout is the last call of the run, whether
\* the fetch, the upsert, the lifecycle refresh or the rebuild returned or
\* raised; a connection that was opened has been closed before logout.
C29_Released ==
  /\ (pc = "idle" /\ TokenObtained) =>
       /\ Cardinality(Positions(Logout)) = 1
       /\ calls[Len(calls)] = Logout
  /\ (pc # "idle") => ~Called(Logout)
  /\ \A i \in Positions(Logout) :
       \A j \in Opened :
         \E k \in Positions(ConnClose) : j < k /\ k < i

\* C29 witness: the rebuild raised, the connection was closed, logout was
\* called and the run has ended.
C29_Witness ==
  /\ pc = "idle"
  /\ err = "truncate"
  /\ Called(RefreshAnchorDiscrepancies)
  /\ Called(ConnClose)
  /\ calls[Len(calls)] = Logout


\* ------------------------------------------------------------ claims on the functions
\* C25. pick_turnover_column: for every set of column names the call returns
\* the first of turnover, store_in_out, amount_store_in_out, amount that is in
\* the set, and raises exactly when none of them is in the set.
C25_PickTurnoverColumn ==
  pc \in {"returned", "raised"} =>
    LET order == <<"turnover", "store_in_out", "amount_store_in_out", "amount">>
        found == {i \in 1..4 : order[i] \in ledgerCols}
    IN  /\ (pc = "raised") <=> (found = {})
        /\ (pc = "raised") => result = RuntimeError
        /\ (pc = "returned") =>
             \E i \in found : /\ result = order[i]
                              /\ \A j \in found : i <= j

\* C25 witness: a ledger with amount_store_in_out and amount and neither of
\* the first two candidates; the call returned amount_store_in_out.
C25_Witness ==
  /\ pc = "returned"
  /\ {"amount_store_in_out", "amount"} \subseteq ledgerCols
  /\ ledgerCols \cap {"turnover", "store_in_out"} = {}
  /\ result = "amount_store_in_out"

\* the rows of the input with the identity key of r, and the rows of the
\* output with it
InputsOf(r) == {k \in 1..Len(rows) : RecIdentity(rows[k]) = RecIdentity(r)}
OutputsOf(r) == {m \in 1..Len(result.rows) : RecIdentity(result.rows[m]) = RecIdentity(r)}

Last(S) == CHOOSE k \in S : \A l \in S : l <= k

\* C22. Aggregator tie-break: records that share an identity key (and write
\* their document reference the same way) yield a single aggregated row, whose
\* descriptive fields (operating day, product name, product type, measure
\* unit) are those of the later record.
C22_LaterRecordWins ==
  (pc = "returned" /\ result.with_document) =>
    \A i \in {i \in 1..Len(rows) :
                \A k \in InputsOf(rows[i]) : rows[k].document = rows[i].document} :
      /\ Cardinality(OutputsOf(rows[i])) = 1
      /\ \A m \in OutputsOf(rows[i]) :
           LET last == rows[Last(InputsOf(rows[i]))]
               out  == result.rows[m]
           IN  /\ out.oper_day = last.oper_day
               /\ out.product_name = last.product_name
               /\ out.product_type = last.product_type
               /\ out.measure_unit = last.measure_unit

\* the keys of an aggregate with the turnover total of each
KeyTotals(agg, with_document) ==
  {<<key_fields(agg[i], with_document), agg[i].turnover>> : i \in 1..Len(agg)}

Orderings(n) == {f \in [1..n -> 1..n] : \A a, b \in 1..n : f[a] = f[b] => a = b}

Reordered(rs, f) == [i \in 1..Len(rs) |-> rs[f[i]]]

\* C26. Aggregator order independence: every ordering of the input yields the
\* same set of keys and the same turnover total for every key (the total is
\* the float the aggregate holds for the key).
C26_OrderIndependent ==
  pc = "returned" =>
    \A f \in Orderings(Len(rows)) :
      KeyTotals(aggregate_rows(Reordered(rows, f), result.with_document),
                result.with_document)
        = KeyTotals(result.rows, result.with_document)


\* ------------------------------------------------------------ claims on fetch_stock_tx
\* two fetched rows that differ in nothing but the way they have no document
\* reference: None (the key is missing) in one, "" in the other
MissingVsEmpty(a, b) ==
  /\ a.document = None
  /\ b.document = ""
  /\ [a EXCEPT !.document = ""] = b

\* C21. Null preservation: fetch_stock_tx gives a missing and an empty
\* document reference the same value, so two report rows that differ only in
\* missing versus empty document make one aggregated row, and one ledger row
\* once the run has written them.
C21_NullPreserved ==
  /\ pc \in {"upsert", "no_doc", "done", "failed"} =>
       \A i \in 1..Len(rows) : rows[i].document # ""
  /\ pc \in {"upsert", "no_doc", "done"} =>
       \A i, j \in 1..Len(rows) :
         MissingVsEmpty(rows[i], rows[j]) =>
           LET agg == aggregate_rows(rows, TRUE)
           IN  Cardinality({m \in 1..Len(agg) :
                              RecIdentity(agg[m]) = RecIdentity(rows[i])}) = 1
  /\ (pc = "done" /\ err = "none") =>
       \A i, j \in 1..Len(rows) :
         MissingVsEmpty(rows[i], rows[j]) =>
           CopiesSum(ledger, {r \in RowsOf(ledger) :
                                RowIdentity(r) = RecIdentity(rows[i])}) = 1


\* ------------------------------------------------------------ claims on the CRM loader
\* fetch_t1_light_with_token_refresh has raised
FetchRaised == pc = "c_raised" /\ crm.response # "ok"

\* C27. Token refresh on 401: a 401 is answered by a new token and a repeated
\* request that does not consume one of the HTTP_RETRIES attempts (the attempt
\* number counts the requests that were not answered 401), also when the 401
\* comes on the last attempt; the function ends by returning the data or by
\* raising the error of a request.
C27_RefreshKeepsAttempt ==
  /\ pc = "c_loop" => crm.attempt = (crm.requests - crm.refreshed) + 1
  /\ FetchRaised => err \in RequestErrors

\* the for loop is at an attempt of range(1, HTTP_RETRIES + 1), and a step
\* that stays in the loop for the same chunk moves to the next attempt
LoopAdvances ==
  (pc = "c_loop" /\ pc' = "c_loop" /\ crm'.chunk = crm.chunk) =>
    (crm'.attempt = crm.attempt + 1 /\ crm'.requests = crm.requests + 1)

\* C28. Bounded retry: whatever the server answers, a call of
\* fetch_t1_light_with_token_refresh makes at most HTTP_RETRIES OLAP requests
\* and every pass of its loop moves to the next attempt; a timeout or
\* connection error is retried only while attempts remain and is raised on
\* the last attempt; any other HTTP error is raised at once.
C28_BoundedRetry ==
  /\ [](/\ crm.requests <= HTTP_RETRIES
        /\ pc = "c_loop" => crm.attempt \in 1..HTTP_RETRIES
        /\ (pc = "c_loop" /\ crm.response = "network") =>
             crm.requests < HTTP_RETRIES
        /\ (pc \in {"c_loop", "c_raised"} /\ crm.response = "network"
              /\ crm.requests = HTTP_RETRIES) =>
             (pc = "c_raised" /\ err = "network")
        /\ (pc \in {"c_loop", "c_upsert", "c_raised"} /\ crm.response = "http_error") =>
             (pc = "c_raised" /\ err = "http"))
  /\ [][LoopAdvances]_vars

\* C28 witness: two attempts time out and are retried, the third times out
\* and the error is raised after HTTP_RETRIES requests.
C28_Witness ==
  /\ pc = "c_raised"
  /\ err = "network"
  /\ crm.response = "network"
  /\ crm.refreshed = 0
  /\ crm.attempt = HTTP_RETRIES
  /\ crm.requests = HTTP_RETRIES

====
